---- MODULE Spec2Model ----
(***************************************************************************)
(* pdf_splitter.py: extract the text of a PDF page by page, normalise its  *)
(* whitespace, split it into sentence-aligned sections and write one file  *)
(* per section.                                                            *)
(*                                                                         *)
(* A Python string is a sequence of runs [c |-> ch, n |-> k], k copies of  *)
(* the character ch.  Whitespace and punctuation always have k = 1; only   *)
(* letters come in longer runs, which lets a text of several thousand      *)
(* characters (the section limit is 4096) be a short sequence.  No         *)
(* operation of the program splits or merges a run of letters.             *)
(*                                                                         *)
(* The PDF libraries are the environment: a document is the sequence of    *)
(* what page.extract_text() does for each page (text, nothing, or an       *)
(* exception).  sys.argv[3] is taken to be an integer literal, and the     *)
(* output directory starts without section files.  Printing is left out.   *)
(***************************************************************************)
EXTENDS Integers, Sequences, FiniteSets, TLC

VARIABLES
    pc,                     \* position in main / the function being run
    argc,                   \* len(sys.argv)
    argv3,                  \* int(sys.argv[3]) when argc > 3
    pdf_exists,             \* os.path.exists(pdf_path)
    PDFPLUMBER_AVAILABLE,   \* module flag, line 22/24
    PYPDF2_AVAILABLE,       \* module flag, line 28/30
    pages,                  \* what page.extract_text() does for each page
    i,                      \* page loop index (1-based)
    text,                   \* accumulator of the extraction loops
    raw_text,               \* main: result of extract_text_from_pdf
    chars_per_section,      \* soft target
    cleaned_text,           \* main: result of clean_text
    sentences,              \* split_text_into_sections: re.split result
    k,                      \* position of the sentence loop in sentences
    current_section,        \* split_text_into_sections: buffer
    sections,               \* split_text_into_sections: result list
    digits,                 \* save_sections_to_files: width of the index
    j,                      \* save_sections_to_files: loop index (1-based)
    files,                  \* output directory: index suffix -> content
    dir_created,            \* os.makedirs(output_dir) has run
    exc,                    \* exception in flight in main ("none" if none)
    caught,                 \* the except clause of main has run
    exit_code               \* process exit status, -1 while running

vars == <<pc, argc, argv3, pdf_exists, PDFPLUMBER_AVAILABLE, PYPDF2_AVAILABLE,
          pages, i, text, raw_text, chars_per_section, cleaned_text,
          sentences, k, current_section, sections, digits, j, files,
          dir_created, exc, caught, exit_code>>

(***************************************************************************)
(* Bounds of the model.                                                    *)
(***************************************************************************)
MaxLen == 6
MaxPages == 3
MaxSections == 10

(***************************************************************************)
(* Program constants.                                                      *)
(***************************************************************************)
max_chars == 4096
DefaultCharsPerSection == 4090

(***************************************************************************)
(* Characters and strings.                                                 *)
(***************************************************************************)
Ch(c) == [c |-> c, n |-> 1]
Word(c, n) == [c |-> c, n |-> n]

SP == Ch(" ")
NL == Ch("\n")
DOT == Ch(".")
BANG == Ch("!")
QM == Ch("?")

\* characters matched by \s and removed by str.strip()
Whitespace == {" ", "\n", "\t"}
IsSpace(x) == x.c \in Whitespace

\* the lookbehind class [.!?]
Terminators == {".", "!", "?"}
IsTerminator(x) == x.c \in Terminators

\* len(s)
RECURSIVE len(_)
len(s) == IF s = <<>> THEN 0 ELSE s[1].n + len(Tail(s))

RECURSIVE lstrip(_)
lstrip(s) == IF s # <<>> /\ IsSpace(s[1]) THEN lstrip(Tail(s)) ELSE s

RECURSIVE rstrip(_)
rstrip(s) ==
    IF s # <<>> /\ IsSpace(s[Len(s)]) THEN rstrip(SubSeq(s, 1, Len(s) - 1)) ELSE s

\* s.strip()
strip(s) == rstrip(lstrip(s))

\* a variant of re_sub_ws that replaces pairs of whitespace characters
RECURSIVE re_sub_ws_pairs(_)
re_sub_ws_pairs(s) ==
    IF s = <<>> THEN <<>>
    ELSE IF Len(s) >= 2 /\ IsSpace(s[1]) /\ IsSpace(s[2])
         THEN <<SP>> \o re_sub_ws_pairs(Tail(Tail(s)))
         ELSE <<s[1]>> \o re_sub_ws_pairs(Tail(s))

\* re.sub(r'\s+', ' ', s): every maximal run of whitespace becomes one space
RECURSIVE re_sub_ws(_)
re_sub_ws(s) ==
    IF s = <<>> THEN <<>>
    ELSE IF IsSpace(s[1])
         THEN <<SP>> \o re_sub_ws(lstrip(Tail(s)))
         ELSE <<s[1]>> \o re_sub_ws(Tail(s))

clean_text(s) == strip(re_sub_ws(s))

\* re.split(r'(?<=[.!?])\s+', s), scanning s from position p with the piece
\* collected since the last separator and the pieces already produced
RECURSIVE re_split_from(_, _, _, _)
re_split_from(s, p, piece, acc) ==
    IF p > Len(s) THEN Append(acc, piece)
    ELSE IF IsSpace(s[p]) /\ p > 1 /\ IsTerminator(s[p - 1])
         THEN LET rest == lstrip(SubSeq(s, p, Len(s)))
              IN  re_split_from(s, Len(s) - Len(rest) + 1, <<>>, Append(acc, piece))
         ELSE re_split_from(s, p + 1, Append(piece, s[p]), acc)

re_split(s) == re_split_from(s, 1, <<>>, <<>>)

(***************************************************************************)
(* split_text_into_sections                                                *)
(***************************************************************************)
\* line 112
potential_length(current, sentence) ==
    len(current) + len(sentence) + (IF current # <<>> THEN 1 ELSE 0)

\* a variant of over_preferred that does not look at the buffer
over_preferred_any_buffer(potential, target, current) == potential > target

\* line 114
over_preferred(potential, target, current) ==
    potential > target /\ current # <<>>

\* line 116
within_max(potential) == potential <= max_chars

\* a variant of joined that concatenates without the space
joined_no_space(current, sentence) == current \o sentence

\* lines 118-121 and 131-134
joined(current, sentence) ==
    IF current # <<>> THEN current \o <<SP>> \o sentence ELSE sentence

\* line 188-189
CleanText ==
    /\ pc = "clean"
    /\ cleaned_text' = clean_text(raw_text)
    /\ pc' = "split"
    /\ UNCHANGED <<argc, argv3, pdf_exists, PDFPLUMBER_AVAILABLE,
                   PYPDF2_AVAILABLE, pages, i, text, raw_text,
                   chars_per_section, sentences, k, current_section,
                   sections, digits, j, files, dir_created, exc, caught,
                   exit_code>>

\* lines 104-108
SplitBegin ==
    /\ pc = "split"
    /\ sections' = <<>>
    /\ current_section' = <<>>
    /\ sentences' = re_split(cleaned_text)
    /\ k' = 1
    /\ pc' = "split_loop"
    /\ UNCHANGED <<argc, argv3, pdf_exists, PDFPLUMBER_AVAILABLE,
                   PYPDF2_AVAILABLE, pages, i, text, raw_text,
                   chars_per_section, cleaned_text, digits, j, files,
                   dir_created, exc, caught, exit_code>>

SplitUnchanged ==
    UNCHANGED <<pc, argc, argv3, pdf_exists, PDFPLUMBER_AVAILABLE,
                PYPDF2_AVAILABLE, pages, i, text, raw_text,
                chars_per_section, cleaned_text, sentences, digits, j,
                files, dir_created, exc, caught, exit_code>>

\* lines 110-114, 129-134: the sentence joins the buffer
SplitAppend ==
    /\ pc = "split_loop"
    /\ k <= Len(sentences)
    /\ LET sentence == sentences[k]
           potential == potential_length(current_section, sentence)
       IN  /\ ~over_preferred(potential, chars_per_section, current_section)
           /\ current_section' = joined(current_section, sentence)
           /\ sections' = sections
    /\ k' = k + 1
    /\ SplitUnchanged

\* a variant of SplitComplete that keeps the buffer open
SplitCompleteKeepOpen ==
    /\ pc = "split_loop"
    /\ k <= Len(sentences)
    /\ LET sentence == sentences[k]
           potential == potential_length(current_section, sentence)
       IN  /\ over_preferred(potential, chars_per_section, current_section)
           /\ within_max(potential)
           /\ current_section' = joined(current_section, sentence)
           /\ sections' = sections
    /\ k' = k + 1
    /\ SplitUnchanged

\* lines 110-124: the sentence completes the buffer, which is emitted
SplitComplete ==
    /\ pc = "split_loop"
    /\ k <= Len(sentences)
    /\ LET sentence == sentences[k]
           potential == potential_length(current_section, sentence)
       IN  /\ over_preferred(potential, chars_per_section, current_section)
           /\ within_max(potential)
           /\ sections' = Append(sections, strip(joined(current_section, sentence)))
           /\ current_section' = <<>>
    /\ k' = k + 1
    /\ SplitUnchanged

\* lines 110-116, 125-128: the buffer is emitted, the sentence starts the next
SplitDefer ==
    /\ pc = "split_loop"
    /\ k <= Len(sentences)
    /\ LET sentence == sentences[k]
           potential == potential_length(current_section, sentence)
       IN  /\ over_preferred(potential, chars_per_section, current_section)
           /\ ~within_max(potential)
           /\ sections' = Append(sections, strip(current_section))
           /\ current_section' = sentence
    /\ k' = k + 1
    /\ SplitUnchanged

\* lines 136-140
SplitReturn ==
    /\ pc = "split_loop"
    /\ k > Len(sentences)
    /\ sections' = IF current_section # <<>>
                   THEN Append(sections, strip(current_section))
                   ELSE sections
    /\ pc' = "split_done"
    /\ UNCHANGED <<argc, argv3, pdf_exists, PDFPLUMBER_AVAILABLE,
                   PYPDF2_AVAILABLE, pages, i, text, raw_text,
                   chars_per_section, cleaned_text, sentences, k,
                   current_section, digits, j, files, dir_created, exc,
                   caught, exit_code>>

(***************************************************************************)
(* save_sections_to_files                                                  *)
(***************************************************************************)
\* str(m) for m >= 0, as the sequence of its decimal digits
RECURSIVE py_str(_)
py_str(m) == IF m < 10 THEN <<m>> ELSE Append(py_str(m \div 10), m % 10)

\* s.zfill(width)
RECURSIVE zfill(_, _)
zfill(s, width) == IF Len(s) >= width THEN s ELSE zfill(<<0>> \o s, width)

\* a variant of index_width that takes the width of the last 0-based index
index_width_zero_based(total) == Len(py_str(total - 1))

\* line 148
index_width(total) == Len(py_str(total))

\* line 151: the index part of the file name; base_name, "_section_" and
\* ".txt" are the same for every file of a run
file_index(m, width) == zfill(py_str(m), width)

SaveUnchanged ==
    UNCHANGED <<argc, argv3, pdf_exists, PDFPLUMBER_AVAILABLE,
                PYPDF2_AVAILABLE, pages, i, text, raw_text,
                chars_per_section, cleaned_text, sentences, k,
                current_section, sections, caught, exit_code>>

\* lines 145-148
SaveBegin ==
    /\ pc = "save"
    /\ dir_created' = TRUE
    /\ digits' = index_width(Len(sections))
    /\ j' = 1
    /\ pc' = "save_loop"
    /\ UNCHANGED <<files, exc>>
    /\ SaveUnchanged

\* lines 150-158: one file is written, replacing a file of the same name
SaveWrite ==
    /\ pc = "save_loop"
    /\ j <= Len(sections)
    /\ LET filename == file_index(j, digits)
       IN  files' = [f \in DOMAIN files \cup {filename} |->
                        IF f = filename THEN sections[j] ELSE files[f]]
    /\ j' = j + 1
    /\ UNCHANGED <<pc, digits, dir_created, exc>>
    /\ SaveUnchanged

\* line 154: open() fails, the error leaves save_sections_to_files
SaveFails ==
    /\ pc = "save_loop"
    /\ j <= Len(sections)
    /\ exc' = "OSError"
    /\ pc' = "raised"
    /\ UNCHANGED <<digits, j, files, dir_created>>
    /\ SaveUnchanged

\* the loop of line 150 is over
SaveReturn ==
    /\ pc = "save_loop"
    /\ j > Len(sections)
    /\ pc' = "save_done"
    /\ UNCHANGED <<digits, j, files, dir_created, exc>>
    /\ SaveUnchanged

(***************************************************************************)
(* extract_text_from_pdf and the two backends                              *)
(***************************************************************************)
ExtractUnchanged ==
    UNCHANGED <<argc, argv3, pdf_exists, PDFPLUMBER_AVAILABLE,
                PYPDF2_AVAILABLE, pages, chars_per_section, cleaned_text,
                sentences, k, current_section, sections, digits, j, files,
                dir_created, caught, exit_code>>

\* lines 78-79
ExtractNotFound ==
    /\ pc = "extract"
    /\ ~pdf_exists
    /\ exc' = "FileNotFoundError"
    /\ pc' = "raised"
    /\ UNCHANGED <<i, text, raw_text>>
    /\ ExtractUnchanged

\* lines 81-86
ExtractNoBackend ==
    /\ pc = "extract"
    /\ pdf_exists
    /\ ~PDFPLUMBER_AVAILABLE
    /\ ~PYPDF2_AVAILABLE
    /\ exc' = "ImportError"
    /\ pc' = "raised"
    /\ UNCHANGED <<i, text, raw_text>>
    /\ ExtractUnchanged

\* lines 81-82, 35-38
PdfplumberOpen ==
    /\ pc = "extract"
    /\ pdf_exists
    /\ PDFPLUMBER_AVAILABLE
    /\ text' = <<>>
    /\ i' = 1
    /\ pc' = "pdfplumber_loop"
    /\ UNCHANGED <<raw_text, exc>>
    /\ ExtractUnchanged

\* a variant of PdfplumberPage in which a failing page ends the loop
PdfplumberPageAbort ==
    /\ pc = "pdfplumber_loop"
    /\ i <= Len(pages)
    /\ LET page == pages[i]
       IN  /\ text' = IF page.kind = "text" /\ page.text # <<>>
                      THEN text \o page.text \o <<NL>>
                      ELSE text
           /\ i' = IF page.kind = "raise" THEN Len(pages) + 1 ELSE i + 1
    /\ UNCHANGED <<pc, raw_text, exc>>
    /\ ExtractUnchanged

\* lines 40-49: one page; an exception of extract_text is caught and the
\* loop continues
PdfplumberPage ==
    /\ pc = "pdfplumber_loop"
    /\ i <= Len(pages)
    /\ LET page == pages[i]
       IN  text' = IF page.kind = "text" /\ page.text # <<>>
                   THEN text \o page.text \o <<NL>>
                   ELSE text
    /\ i' = i + 1
    /\ UNCHANGED <<pc, raw_text, exc>>
    /\ ExtractUnchanged

\* line 51, and line 181 of main
PdfplumberReturn ==
    /\ pc = "pdfplumber_loop"
    /\ i > Len(pages)
    /\ raw_text' = text
    /\ pc' = "check_empty"
    /\ UNCHANGED <<i, text, exc>>
    /\ ExtractUnchanged

\* lines 83-84, 56-60
Pypdf2Open ==
    /\ pc = "extract"
    /\ pdf_exists
    /\ ~PDFPLUMBER_AVAILABLE
    /\ PYPDF2_AVAILABLE
    /\ text' = <<>>
    /\ i' = 1
    /\ pc' = "pypdf2_loop"
    /\ UNCHANGED <<raw_text, exc>>
    /\ ExtractUnchanged

\* lines 62-71
Pypdf2Page ==
    /\ pc = "pypdf2_loop"
    /\ i <= Len(pages)
    /\ LET page == pages[i]
       IN  text' = IF page.kind = "text" /\ page.text # <<>>
                   THEN text \o page.text \o <<NL>>
                   ELSE text
    /\ i' = i + 1
    /\ UNCHANGED <<pc, raw_text, exc>>
    /\ ExtractUnchanged

\* line 73, and line 181 of main
Pypdf2Return ==
    /\ pc = "pypdf2_loop"
    /\ i > Len(pages)
    /\ raw_text' = text
    /\ pc' = "check_empty"
    /\ UNCHANGED <<i, text, exc>>
    /\ ExtractUnchanged

(***************************************************************************)
(* main                                                                    *)
(***************************************************************************)
\* the classes caught by "except Exception"; SystemExit is not one of them
ExceptionClasses == {"FileNotFoundError", "ImportError", "OSError"}

MainUnchanged ==
    UNCHANGED <<argc, argv3, pdf_exists, PDFPLUMBER_AVAILABLE,
                PYPDF2_AVAILABLE, pages, i, text, raw_text, cleaned_text,
                sentences, k, current_section, sections, digits, j, files,
                dir_created>>

\* lines 162-165
MainUsage ==
    /\ pc = "main"
    /\ argc < 2
    /\ exit_code' = 1
    /\ pc' = "exited"
    /\ UNCHANGED <<chars_per_section, exc, caught>>
    /\ MainUnchanged

\* lines 167-178
MainArgs ==
    /\ pc = "main"
    /\ argc >= 2
    /\ chars_per_section' = IF argc > 3 THEN argv3 ELSE DefaultCharsPerSection
    /\ pc' = "extract"
    /\ UNCHANGED <<exc, caught, exit_code>>
    /\ MainUnchanged

\* a variant of no_text that only recognises the empty string
no_text_unstripped(raw) == raw = <<>>

\* line 183
no_text(raw) == strip(raw) = <<>>

\* lines 183-185
MainCheckEmpty ==
    /\ pc = "check_empty"
    /\ IF no_text(raw_text)
       THEN /\ exc' = "SystemExit"
            /\ pc' = "raised"
       ELSE /\ exc' = exc
            /\ pc' = "clean"
    /\ UNCHANGED <<chars_per_section, caught, exit_code>>
    /\ MainUnchanged

\* lines 196-200
MainSave ==
    /\ pc = "split_done"
    /\ pc' = "save"
    /\ UNCHANGED <<chars_per_section, exc, caught, exit_code>>
    /\ MainUnchanged

\* line 202 and the return of main
MainCompleted ==
    /\ pc = "save_done"
    /\ exit_code' = 0
    /\ pc' = "exited"
    /\ UNCHANGED <<chars_per_section, exc, caught>>
    /\ MainUnchanged

\* lines 204-206: the handler prints the error and calls sys.exit(1)
MainExcept ==
    /\ pc = "raised"
    /\ exc \in ExceptionClasses
    /\ caught' = TRUE
    /\ exc' = "SystemExit"
    /\ UNCHANGED <<pc, chars_per_section, exit_code>>
    /\ MainUnchanged

\* SystemExit(1) from line 185 or line 206 leaves main uncaught
MainSystemExit ==
    /\ pc = "raised"
    /\ exc = "SystemExit"
    /\ exit_code' = 1
    /\ pc' = "exited"
    /\ UNCHANGED <<chars_per_section, exc, caught>>
    /\ MainUnchanged

(***************************************************************************)
(* Inputs of split_text_into_sections and clean_text.                      *)
(***************************************************************************)
WordLens == {1, 2044, 4100}
Alphabet == {SP, NL, DOT} \cup {Word("a", n) : n \in WordLens}
IsLetters(x) == x.c \notin (Whitespace \cup Terminators)

\* a run is maximal: two runs of the same letter are never adjacent
Canonical(s) ==
    \A p \in 1..(Len(s) - 1) : ~(IsLetters(s[p]) /\ s[p + 1].c = s[p].c)

BoundedTexts ==
    {s \in UNION {[1..n -> Alphabet] : n \in 0..MaxLen} : Canonical(s)}

\* "A. B. C."
TextABC == <<Ch("A"), DOT, SP, Ch("B"), DOT, SP, Ch("C"), DOT>>
\* one sentence of length 10
TextTen == <<Word("a", 9), DOT>>
\* a sentence of length 12 followed by a short one
TextTwelve == <<Word("a", 11), QM, NL, NL, Ch("b"), BANG>>
\* two sentences of 2045 characters and a short one
TextLong == <<Word("a", 2044), DOT, SP, Word("b", 2044), BANG, SP, Ch("c"), QM>>

ScenarioTexts == {TextABC, TextTen, TextTwelve, TextLong}

RawTexts == BoundedTexts \cup ScenarioTexts

Targets == {-1, 0, 5, DefaultCharsPerSection, 5000}

NoFiles == [x \in {} |-> <<>>]

InitSplit ==
    /\ pc = "clean"
    /\ raw_text \in RawTexts
    /\ chars_per_section \in Targets
    /\ argc = 4
    /\ argv3 = chars_per_section
    /\ pdf_exists = TRUE
    /\ PDFPLUMBER_AVAILABLE = TRUE
    /\ PYPDF2_AVAILABLE = TRUE
    /\ pages = <<>>
    /\ i = 1
    /\ text = <<>>
    /\ cleaned_text = <<>>
    /\ sentences = <<>>
    /\ k = 1
    /\ current_section = <<>>
    /\ sections = <<>>
    /\ digits = 0
    /\ j = 1
    /\ files = NoFiles
    /\ dir_created = FALSE
    /\ exc = "none"
    /\ caught = FALSE
    /\ exit_code = -1

NextSplit ==
    \/ CleanText
    \/ SplitBegin
    \/ SplitAppend
    \/ SplitComplete
    \/ SplitDefer
    \/ SplitReturn

SpecSplit == InitSplit /\ [][NextSplit]_vars

(***************************************************************************)
(* Inputs of save_sections_to_files.                                       *)
(***************************************************************************)
SampleChunks == {<<Ch("a"), DOT>>, <<Word("b", 3), QM>>}
SectionLists == UNION {[1..m -> SampleChunks] : m \in 0..MaxSections}

InitSave ==
    /\ pc = "save"
    /\ sections \in SectionLists
    /\ chars_per_section = DefaultCharsPerSection
    /\ argc = 2
    /\ argv3 = DefaultCharsPerSection
    /\ pdf_exists = TRUE
    /\ PDFPLUMBER_AVAILABLE = TRUE
    /\ PYPDF2_AVAILABLE = TRUE
    /\ pages = <<>>
    /\ i = 1
    /\ text = <<>>
    /\ raw_text = <<>>
    /\ cleaned_text = <<>>
    /\ sentences = <<>>
    /\ k = 1
    /\ current_section = <<>>
    /\ digits = 0
    /\ j = 1
    /\ files = NoFiles
    /\ dir_created = FALSE
    /\ exc = "none"
    /\ caught = FALSE
    /\ exit_code = -1

NextSave ==
    \/ SaveBegin
    \/ SaveWrite
    \/ SaveFails
    \/ SaveReturn

SpecSave == InitSave /\ [][NextSave]_vars

(***************************************************************************)
(* The whole program.                                                      *)
(***************************************************************************)
PageTexts == {<<SP>>, <<Ch("a"), DOT>>, <<Word("b", 4100), QM>>}
PageOutcomes ==
    {[kind |-> "raise", text |-> <<>>], [kind |-> "empty", text |-> <<>>]}
        \cup {[kind |-> "text", text |-> t] : t \in PageTexts}
Documents == UNION {[1..m -> PageOutcomes] : m \in 0..MaxPages}

Init ==
    /\ pc = "main"
    /\ argc \in 1..4
    /\ argv3 \in IF argc > 3 THEN Targets ELSE {DefaultCharsPerSection}
    /\ pdf_exists \in BOOLEAN
    /\ PDFPLUMBER_AVAILABLE \in BOOLEAN
    /\ PYPDF2_AVAILABLE \in BOOLEAN
    /\ pages \in Documents
    /\ i = 1
    /\ text = <<>>
    /\ raw_text = <<>>
    /\ chars_per_section = 0      \* not yet assigned (line 169)
    /\ cleaned_text = <<>>
    /\ sentences = <<>>
    /\ k = 1
    /\ current_section = <<>>
    /\ sections = <<>>
    /\ digits = 0
    /\ j = 1
    /\ files = NoFiles
    /\ dir_created = FALSE
    /\ exc = "none"
    /\ caught = FALSE
    /\ exit_code = -1

Next ==
    \/ MainUsage
    \/ MainArgs
    \/ ExtractNotFound
    \/ ExtractNoBackend
    \/ PdfplumberOpen
    \/ PdfplumberPage
    \/ PdfplumberReturn
    \/ Pypdf2Open
    \/ Pypdf2Page
    \/ Pypdf2Return
    \/ MainCheckEmpty
    \/ CleanText
    \/ SplitBegin
    \/ SplitAppend
    \/ SplitComplete
    \/ SplitDefer
    \/ SplitReturn
    \/ MainSave
    \/ SaveBegin
    \/ SaveWrite
    \/ SaveFails
    \/ SaveReturn
    \/ MainCompleted
    \/ MainExcept
    \/ MainSystemExit

Spec == Init /\ [][Next]_vars

(***************************************************************************)
(* Properties of clean_text and split_text_into_sections (SpecSplit).      *)
(***************************************************************************)
RECURSIVE Flatten(_)
Flatten(ss) == IF ss = <<>> THEN <<>> ELSE ss[1] \o Flatten(Tail(ss))

\* the strings of ss separated by single spaces
RECURSIVE JoinSpace(_)
JoinSpace(ss) ==
    IF ss = <<>> THEN <<>>
    ELSE IF Len(ss) = 1 THEN ss[1]
    ELSE ss[1] \o <<SP>> \o JoinSpace(Tail(ss))

Front(ss) == SubSeq(ss, 1, Len(ss) - 1)
Chunks == {sections[c] : c \in 1..Len(sections)}
SplitDone == pc = "split_done"
HardCap == chars_per_section + 6
InLoop == pc = "split_loop" /\ k <= Len(sentences)

C2_Deferral ==
    /\ [][(InLoop /\ current_section # <<>>
             /\ potential_length(current_section, sentences[k]) > HardCap)
          => (/\ sections' = Append(sections, current_section)
              /\ current_section' = sentences[k])]_vars
    /\ [](SplitDone /\ cleaned_text = TextABC /\ chars_per_section = 5
          => sections = << <<Ch("A"), DOT, SP, Ch("B"), DOT>>, <<Ch("C"), DOT>> >>)

\* C3 as stated: for every normalized text, the sentences of the chunks, in
\* chunk order, are the sentences of the text, joined by single spaces
C3_Coverage_AnyText ==
    SplitDone =>
        /\ Flatten([c \in 1..Len(sections) |-> re_split(sections[c])])
             = re_split(cleaned_text)
        /\ \A chunk \in Chunks : chunk = JoinSpace(re_split(chunk))

\* C3 amended: the same for every non-empty normalized text (re.split of the
\* empty text is the list [''], for which no chunk is returned)
C3_Coverage ==
    (SplitDone /\ cleaned_text # <<>>) =>
        /\ Flatten([c \in 1..Len(sections) |-> re_split(sections[c])])
             = re_split(cleaned_text)
        /\ \A chunk \in Chunks : chunk = JoinSpace(re_split(chunk))

C3_Witness ==
    /\ SplitDone
    /\ Len(sections) >= 2
    /\ Len(re_split(cleaned_text)) >= 3
    /\ \E chunk \in Chunks : Len(re_split(chunk)) >= 2

\* C4: a non-empty normalized text gives at least one chunk and no chunk of
\* length 0, for every T; the empty text gives no chunk
C4_NonEmpty ==
    SplitDone =>
        /\ cleaned_text # <<>> =>
              (Len(sections) >= 1 /\ \A chunk \in Chunks : len(chunk) > 0)
        /\ cleaned_text = <<>> => sections = <<>>

C4_Witness ==
    /\ SplitDone
    /\ chars_per_section <= 0
    /\ cleaned_text # <<>>
    /\ Len(sections) >= 2

\* C5: a sentence longer than T + 6 is a chunk of its own, unsplit, whatever
\* surrounds it; one sentence of length 10 with T = 5 is one chunk of length 10
C5_Oversized ==
    SplitDone =>
        /\ \A chunk \in Chunks : \A s \in 1..Len(re_split(chunk)) :
              len(re_split(chunk)[s]) > HardCap => chunk = re_split(chunk)[s]
        /\ \A s \in 1..Len(sentences) :
              len(sentences[s]) > HardCap => sentences[s] \in Chunks
        /\ (cleaned_text = TextTen /\ chars_per_section = 5)
              => (Len(sections) = 1 /\ len(sections[1]) = 10)

\* C6: clean_text(clean_text(x)) = clean_text(x)
C6_Idempotent ==
    pc # "clean" => clean_text(cleaned_text) = cleaned_text

C6_Witness ==
    /\ pc = "split"
    /\ cleaned_text # raw_text
    /\ cleaned_text # <<>>
    /\ \E p \in 1..Len(cleaned_text) : IsSpace(cleaned_text[p])

\* C10 as stated: in every chunk of two or more sentences, the chunk without
\* its last sentence and the joining space has length <= T
C10_SoftTarget_Always ==
    SplitDone =>
        \A chunk \in Chunks :
            Len(re_split(chunk)) >= 2
                => len(JoinSpace(Front(re_split(chunk)))) <= chars_per_section

\* C10 amended: in every chunk of two or more sentences, the chunk without its
\* last sentence has length <= T unless it is one single sentence
C10_SoftTarget ==
    SplitDone =>
        \A chunk \in Chunks :
            Len(re_split(chunk)) >= 3
                => len(JoinSpace(Front(re_split(chunk)))) <= chars_per_section

C10_Witness ==
    /\ SplitDone
    /\ \E chunk \in Chunks :
          /\ Len(re_split(chunk)) >= 3
          /\ len(chunk) > chars_per_section

(***************************************************************************)
(* Properties of save_sections_to_files (SpecSave).                        *)
(***************************************************************************)
\* the number a sequence of decimal digits denotes
RECURSIVE IndexValue(_)
IndexValue(ds) ==
    IF ds = <<>> THEN 0 ELSE 10 * IndexValue(Front(ds)) + ds[Len(ds)]

RECURSIVE Pow10(_)
Pow10(e) == IF e = 0 THEN 1 ELSE 10 * Pow10(e - 1)

\* the number of decimal digits of m
NumDigits(m) == CHOOSE d \in 1..4 : (m = 0 \/ Pow10(d - 1) <= m) /\ m < Pow10(d)

\* C7: N chunks give exactly N files; the indices are 1..N without gaps or
\* repeats, each of exactly len(str(N)) digits, and file i holds chunk i
C7_Naming ==
    pc = "save_done" =>
        /\ Cardinality(DOMAIN files) = Len(sections)
        /\ {IndexValue(f) : f \in DOMAIN files} = 1..Len(sections)
        /\ \A f \in DOMAIN files :
              /\ Len(f) = NumDigits(Len(sections))
              /\ files[f] = sections[IndexValue(f)]

C7_Witness ==
    /\ pc = "save_done"
    /\ Len(sections) >= 10
    /\ <<0, 1>> \in DOMAIN files
    /\ files[<<0, 1>>] # files[<<1, 0>>]

(***************************************************************************)
(* Properties of the whole program (Spec).                                 *)
(***************************************************************************)
ChunkerOrWriter ==
    {"clean", "split", "split_loop", "split_done", "save", "save_loop", "save_done"}

\* C8: an extraction that is empty or all whitespace raises SystemExit, which
\* the handler of main does not catch; the run ends with exit code 1, the
\* chunker and the writer are not reached, no directory or file is created
C8_EmptyExtraction ==
    /\ [][(pc = "check_empty" /\ strip(raw_text) = <<>>)
            => (pc' = "raised" /\ exc' = "SystemExit")]_vars
    /\ [][(pc = "raised" /\ exc = "SystemExit" /\ ~caught)
            => (pc' = "exited" /\ exit_code' = 1 /\ ~caught')]_vars
    /\ [](strip(raw_text) = <<>> =>
            /\ pc \notin ChunkerOrWriter
            /\ sentences = <<>> /\ sections = <<>>
            /\ ~dir_created
            /\ files = NoFiles
            /\ (pc = "exited" => exit_code = 1))

C8_Witness ==
    /\ pc = "exited"
    /\ Len(raw_text) >= 2
    /\ strip(raw_text) = <<>>
    /\ exit_code = 1
    /\ ~caught

\* the text of the pages that gave text, in page order, a newline after each
RECURSIVE TextOfPages(_)
TextOfPages(ps) ==
    IF ps = <<>> THEN <<>>
    ELSE (IF ps[1].kind = "text" THEN ps[1].text \o <<NL>> ELSE <<>>)
            \o TextOfPages(Tail(ps))

ExtractionLoops == {"pdfplumber_loop", "pypdf2_loop"}

\* C9: with either backend the loop visits every page and never raises,
\* whatever pages fail or are empty, and returns the text of the pages that
\* gave text, in page order, each followed by a newline
C9_PageTolerance ==
    /\ pc \in ExtractionLoops =>
          /\ exc = "none"
          /\ i <= Len(pages) + 1
          /\ text = TextOfPages(SubSeq(pages, 1, i - 1))
    /\ pc = "check_empty" =>
          /\ exc = "none"
          /\ i = Len(pages) + 1
          /\ raw_text = TextOfPages(pages)

C9_Witness ==
    /\ pc = "check_empty"
    /\ Len(pages) >= 3
    /\ pages[1].kind = "text"
    /\ pages[2].kind = "raise"
    /\ pages[3].kind = "text"
    /\ pages[3].text # pages[1].text

====
